---- MODULE Spec2Model ----
(***************************************************************************)
(* Model of lockfreestocks.c: the bounded MPSC queue (MinimalQueue) with   *)
(* its two-phase reservation/commit protocol, the order book of buy and    *)
(* sell queues per ticker, the matching pass (matchOrders) and the driver  *)
(* threads.                                                                *)
(*                                                                         *)
(* Every access to an atomic counter is one step.  The loads are acquire   *)
(* and the stores release (the CAS acq_rel), and every non-atomic slot     *)
(* access is ordered with the conflicting one through such a pair, so the  *)
(* steps are interleaved sequentially consistently.  The copy of an Order  *)
(* into a slot is not atomic: it is modelled as two steps (the header      *)
(* fields, then the price), so that a reader overlapping a writer sees a   *)
(* torn value.                                                             *)
(***************************************************************************)
EXTENDS Integers, Sequences, FiniteSets, TLC

\* ------------------------------------------------------------- bounds
\* QUEUE_CAPACITY (128 in the source), scaled down.
QUEUE_CAPACITY == 2
\* NUM_TICKERS (1024 in the source), scaled down.
NUM_TICKERS == 2
\* numProducers (main's second argument, default 3), scaled down.
NumProducers == 2
\* Bound on the number of addOrder calls of a run.
MaxCalls == 3
\* Bound on the number of orders the producers of the whole system submit.
MaxOrders == 3
\* Bound on the number of matchOrders calls of a run.
MaxPasses == 2
\* Bound on the number of dequeue calls of the stand-alone consumer.
MaxDeqs == 3

\* ---------------------------------------------------- program constants
\* The price buckets of the sort: for (price = 10; price <= 1000; ...).
MIN_PRICE == 10
MAX_PRICE == 1000
\* A price (a double, printed with two decimals) is held in hundredths.
Cents == 100

Tickers == 0 .. (NUM_TICKERS - 1)
Sides == {"B", "S"}
Chans == Tickers \X Sides
Producers == 1 .. NumProducers
Matcher == 0
Threads == Producers \cup {Matcher}
Slots == 0 .. (QUEUE_CAPACITY - 1)

\* struct Order.
Order(ty, tk, qty, pr) == [type |-> ty, ticker |-> tk, quantity |-> qty, price |-> pr]
\* The queues are globals: their slots start zeroed.
ZeroOrder == Order("0", 0, 0, 0)

VARIABLES
    orders,            \* [Chans -> [Slots -> Order]]: MinimalQueue.orders
    head,              \* [Chans -> Nat]: MinimalQueue.head
    tail,              \* [Chans -> Nat]: MinimalQueue.tail
    tailReservation,   \* [Chans -> Nat]: MinimalQueue.tailReservation
    running,           \* the global flag
    pc,                \* [Threads -> position in the code]
    q,                 \* [Threads -> Chans]: the q argument of enqueue/dequeue
    order,             \* [Threads -> Order]: the order argument of enqueue
    pos,               \* [Threads -> Nat]: enqueue's local pos
    hd,                \* dequeue's local head (enqueue uses its own at once)
    m,                 \* the matcher's locals (matchOrders' frame)
    trades,            \* the "Matched ..." lines printed by the current pass
    dropped,           \* the number of "Order dropped." lines printed so far
    calls,             \* number of addOrder calls so far
    passes,            \* number of matchOrders calls so far
    deqs,              \* number of dequeue calls of the stand-alone consumer
    resv,              \* history: [Chans -> Seq(Order)], the order argument of the
                       \* enqueue granted each slot index, in index order
    deqd,              \* history: [Chans -> Seq(Order)], the values dequeue returned
    accepted,          \* history: [Chans -> Seq(Order)], the arguments of the enqueue
                       \* calls that returned true
    rejected,          \* history: [Chans -> Seq(Order)], the arguments of the enqueue
                       \* calls that returned false
    before,            \* history: quantity resident in the pass's two channels when
                       \* the pass started
    traced             \* whether this run keeps the history variables

qvars == <<orders, head, tail, tailReservation>>
lvars == <<q, order, pos, hd>>
hvars == <<resv, deqd, accepted, rejected, before, traced>>
cvars == <<calls, passes, deqs>>
vars == <<orders, head, tail, tailReservation, running, pc, q, order, pos, hd,
           m, trades, dropped, calls, passes, deqs, resv, deqd, accepted, rejected,
          before, traced>>

\* ------------------------------------------------------------ helpers
Min(a, b) == IF a < b THEN a ELSE b

RECURSIVE SumQty(_)
\* Sum of the quantities of a sequence of orders.
SumQty(s) == IF s = <<>> THEN 0 ELSE Head(s).quantity + SumQty(Tail(s))

\* The published, not yet consumed orders of channel c, oldest first.
Resident(c) ==
    [n \in 1 .. (tail[c] - head[c]) |->
        orders[c][(head[c] + n - 1) % QUEUE_CAPACITY]]

Count(s, x) == Cardinality({n \in DOMAIN s : s[n] = x})
Range(s) == {s[n] : n \in DOMAIN s}
SameBag(s, t) == \A x \in Range(s) \cup Range(t) : Count(s, x) = Count(t, x)

\* The matcher's frame on entry to matchOrders(ticker).
Frame(tk, ph) ==
    [ticker |-> tk, phase |-> ph, temp |-> ZeroOrder,
     buyOrders |-> <<>>, sellOrders |-> <<>>,
     sortedBuy |-> <<>>, sortedSell |-> <<>>, i |-> 0, j |-> 0, k |-> 0,
     loopTicker |-> tk]

\* History h with x added to the record of channel c.
Record(h, c, x) == IF traced THEN [h EXCEPT ![c] = Append(@, x)] ELSE h

\* initQueue / initOrderBook, and the threads before their first step.
InitQueues ==
    /\ orders = [c \in Chans |-> [s \in Slots |-> ZeroOrder]]
    /\ head = [c \in Chans |-> 0]
    /\ tail = [c \in Chans |-> 0]
    /\ tailReservation = [c \in Chans |-> 0]

InitLocals ==
    /\ q = [t \in Threads |-> <<0, "B">>]
    /\ order = [t \in Threads |-> ZeroOrder]
    /\ pos = [t \in Threads |-> 0]
    /\ hd = 0
    /\ trades = <<>>
    /\ dropped = 0
    /\ calls = 0
    /\ passes = 0
    /\ deqs = 0
    /\ resv = [c \in Chans |-> <<>>]
    /\ deqd = [c \in Chans |-> <<>>]
    /\ accepted = [c \in Chans |-> <<>>]
    /\ rejected = [c \in Chans |-> <<>>]
    /\ before = 0


\* ------------------------------------------------------------ enqueue
\* The slot of a logical index.
SlotOf(n) == n % QUEUE_CAPACITY

\* Mutant: the full check lets one reservation too many through.
IsFullOffByOne(p, h) == (p - h) > QUEUE_CAPACITY

\* Mutant: the full check keeps one slot free.
IsFullEarly(p, h) == (p - h) >= QUEUE_CAPACITY - 1

\* enqueue's full check on the two values it loaded.
IsFull(p, h) == (p - h) >= QUEUE_CAPACITY

\* enqueue returns ok to its caller and its locals are gone: addOrder (a
\* producer) prints the result ("Order dropped." for false) and goes back to the
\* producer loop; matchOrders ignores the result, prints nothing and goes on
\* with the next element of the loop that called.
EnqReturn(t, ok) ==
    /\ dropped' = IF ~ok /\ t # Matcher THEN dropped + 1 ELSE dropped
    /\ accepted' = IF ok THEN Record(accepted, q[t], order[t]) ELSE accepted
    /\ rejected' = IF ok THEN rejected ELSE Record(rejected, q[t], order[t])
    /\ order' = [order EXCEPT ![t] = ZeroOrder]
    /\ pos' = [pos EXCEPT ![t] = 0]
    /\ IF t = Matcher
          THEN /\ pc' = [pc EXCEPT ![t] = m.phase]
               /\ m' = [m EXCEPT !.k = @ + 1]
          ELSE /\ pc' = [pc EXCEPT ![t] = "p_loop"]
               /\ UNCHANGED m

\* pos = load(tailReservation)
EnqLoadRes(t) ==
    /\ pc[t] = "e_load"
    /\ pos' = [pos EXCEPT ![t] = tailReservation[q[t]]]
    /\ pc' = [pc EXCEPT ![t] = "e_head"]
    /\ UNCHANGED <<qvars, running, q, order, hd, m, trades, dropped, cvars, hvars>>

\* Mutant: the order is written into the slot before the full check.
EnqLoadHeadWriteFirst(t) ==
    /\ pc[t] = "e_head"
    /\ orders' = [orders EXCEPT ![q[t]][SlotOf(pos[t])] = order[t]]
    /\ IF IsFull(pos[t], head[q[t]])
          THEN EnqReturn(t, FALSE)
          ELSE /\ pc' = [pc EXCEPT ![t] = "e_cas"]
               /\ UNCHANGED <<order, pos, m, dropped, accepted, rejected>>
    /\ UNCHANGED <<head, tail, tailReservation, running, q, hd, trades, cvars, resv,
                   deqd, before, traced>>

\* head = load(head); if full, return false
EnqLoadHead(t) ==
    /\ pc[t] = "e_head"
    /\ IF IsFull(pos[t], head[q[t]])
          THEN EnqReturn(t, FALSE)
          ELSE /\ pc' = [pc EXCEPT ![t] = "e_cas"]
               /\ UNCHANGED <<order, pos, m, dropped, accepted, rejected>>
    /\ UNCHANGED <<qvars, running, q, hd, trades, cvars, resv, deqd, before, traced>>

\* Mutant: the reservation is a plain store of pos + 1, whatever tailReservation
\* holds by then.
EnqCasPlainStore(t) ==
    /\ pc[t] = "e_cas"
    /\ tailReservation' = [tailReservation EXCEPT ![q[t]] = pos[t] + 1]
    /\ resv' = Record(resv, q[t], order[t])
    /\ pc' = [pc EXCEPT ![t] = "e_write1"]
    /\ UNCHANGED <<orders, head, tail, running, lvars, m, trades, dropped, cvars,
                   deqd, accepted, rejected, before, traced>>

\* compare_exchange_weak(tailReservation, pos, pos + 1): the slot is reserved, or
\* the exchange fails (another reservation came first, or spuriously), pos
\* takes the value found and the loop starts again.
EnqCas(t) ==
    /\ pc[t] = "e_cas"
    /\ \/ /\ tailReservation[q[t]] = pos[t]
          /\ tailReservation' = [tailReservation EXCEPT ![q[t]] = pos[t] + 1]
          /\ resv' = Record(resv, q[t], order[t])
          /\ pc' = [pc EXCEPT ![t] = "e_write1"]
          /\ UNCHANGED pos
       \/ /\ pos' = [pos EXCEPT ![t] = tailReservation[q[t]]]
          /\ pc' = [pc EXCEPT ![t] = "e_load"]
          /\ UNCHANGED <<tailReservation, resv>>
    /\ UNCHANGED <<orders, head, tail, running, q, order, hd, m, trades, dropped, cvars,
                   deqd, accepted, rejected, before, traced>>

\* orders[pos % capacity] = order, first part: type, ticker, quantity.
EnqWriteHeader(t) ==
    /\ pc[t] = "e_write1"
    /\ orders' = [orders EXCEPT ![q[t]][SlotOf(pos[t])] =
                    [@ EXCEPT !.type = order[t].type, !.ticker = order[t].ticker,
                              !.quantity = order[t].quantity]]
    /\ pc' = [pc EXCEPT ![t] = "e_write2"]
    /\ UNCHANGED <<head, tail, tailReservation, running, lvars, m, trades, dropped,
                   cvars, hvars>>

\* orders[pos % capacity] = order, second part: price.
EnqWritePrice(t) ==
    /\ pc[t] = "e_write2"
    /\ orders' = [orders EXCEPT ![q[t]][SlotOf(pos[t])] =
                    [@ EXCEPT !.price = order[t].price]]
    /\ pc' = [pc EXCEPT ![t] = "e_spin"]
    /\ UNCHANGED <<head, tail, tailReservation, running, lvars, m, trades, dropped,
                   cvars, hvars>>

\* Mutant: the publish step does not wait for its turn.
EnqSpinNoWait(t) ==
    /\ pc[t] = "e_spin"
    /\ pc' = [pc EXCEPT ![t] = "e_store"]
    /\ UNCHANGED <<qvars, running, lvars, m, trades, dropped, cvars, hvars>>

\* Mutant: the publish spin gives up once running is false, leaving its
\* reserved slot unpublished.
EnqSpinAbandon(t) ==
    /\ pc[t] = "e_spin"
    /\ IF running
          THEN /\ tail[q[t]] = pos[t]
               /\ pc' = [pc EXCEPT ![t] = "e_store"]
               /\ UNCHANGED <<order, pos, m, dropped, accepted, rejected>>
          ELSE EnqReturn(t, FALSE)
    /\ UNCHANGED <<qvars, running, q, hd, trades, cvars, resv, deqd, before, traced>>

\* while (load(tail) != pos) ; the loop is left by the load that sees tail = pos
\* (a load that sees another value changes nothing).
EnqSpin(t) ==
    /\ pc[t] = "e_spin"
    /\ tail[q[t]] = pos[t]
    /\ pc' = [pc EXCEPT ![t] = "e_store"]
    /\ UNCHANGED <<qvars, running, lvars, m, trades, dropped, cvars, hvars>>

\* store(tail, pos + 1); return true
EnqPublish(t) ==
    /\ pc[t] = "e_store"
    /\ tail' = [tail EXCEPT ![q[t]] = pos[t] + 1]
    /\ EnqReturn(t, TRUE)
    /\ UNCHANGED <<orders, head, tailReservation, running, q, hd, trades, cvars,
                   resv, deqd, before, traced>>

enqueue(t) ==
    \/ EnqLoadRes(t)
    \/ EnqLoadHead(t)
    \/ EnqCas(t)
    \/ EnqWriteHeader(t)
    \/ EnqWritePrice(t)
    \/ EnqSpin(t)
    \/ EnqPublish(t)

\* ------------------------------------------------------------ dequeue
\* Mutant: the empty check tests head > tail.
IsEmptyGreater(h, t) == h > t

\* dequeue's empty check on the two values it loaded.
IsEmpty(h, t) == h = t

\* buyOrders[buyCount++] = temp (or the same for the sells), after which the
\* drain loop calls dequeue again: `stored` is the frame after the store.  The
\* arrays have QUEUE_CAPACITY elements: with count = QUEUE_CAPACITY the store is
\* past the end of the array, which is undefined behaviour; the pass goes on as
\* if the element were stored, or the thread is lost ("m_ub").
DrainStore(count, stored) ==
    \/ /\ m' = stored
       /\ pc' = [pc EXCEPT ![Matcher] = "d_head"]
       /\ UNCHANGED q
    \/ /\ count >= QUEUE_CAPACITY
       /\ m' = [stored EXCEPT !.phase = "m_ub"]
       /\ pc' = [pc EXCEPT ![Matcher] = "m_ub"]
       /\ UNCHANGED q

\* dequeue returns to its caller.  In matchOrders' drain loops a true result
\* appends temp to the side's array and calls dequeue again; a false result ends
\* the loop.  The stand-alone consumer goes back to its loop.
DeqReturn(ok, tmp) ==
    CASE m.phase = "m_drainB" ->
            IF ok
               THEN DrainStore(Len(m.buyOrders),
                               [m EXCEPT !.temp = tmp, !.buyOrders = Append(@, tmp)])
               ELSE /\ m' = [m EXCEPT !.phase = "m_drainS"]
                    /\ q' = [q EXCEPT ![Matcher] = <<m.ticker, "S">>]
                    /\ pc' = [pc EXCEPT ![Matcher] = "d_head"]
      [] m.phase = "m_drainS" ->
            IF ok
               THEN DrainStore(Len(m.sellOrders),
                               [m EXCEPT !.temp = tmp, !.sellOrders = Append(@, tmp)])
               ELSE /\ m' = m
                    /\ pc' = [pc EXCEPT ![Matcher] = "m_sort"]
                    /\ UNCHANGED q
      [] OTHER ->
            /\ m' = [m EXCEPT !.temp = tmp]
            /\ pc' = [pc EXCEPT ![Matcher] = "c_loop"]
            /\ UNCHANGED q

\* head = load(head)
DeqLoadHead ==
    /\ pc[Matcher] = "d_head"
    /\ hd' = head[q[Matcher]]
    /\ pc' = [pc EXCEPT ![Matcher] = "d_tail"]
    /\ UNCHANGED <<qvars, running, q, order, pos, m, trades, dropped, cvars, hvars>>

\* Mutant: dequeue compares head with tailReservation, not with tail.
DeqLoadTailReserved ==
    /\ pc[Matcher] = "d_tail"
    /\ IF IsEmpty(hd, tailReservation[q[Matcher]])
          THEN DeqReturn(FALSE, m.temp) /\ hd' = 0
          ELSE /\ pc' = [pc EXCEPT ![Matcher] = "d_read"]
               /\ UNCHANGED <<m, q, hd>>
    /\ UNCHANGED <<qvars, running, order, pos, trades, dropped, cvars, hvars>>

\* tail = load(tail); if head == tail, return false
DeqLoadTail ==
    /\ pc[Matcher] = "d_tail"
    /\ IF IsEmpty(hd, tail[q[Matcher]])
          THEN DeqReturn(FALSE, m.temp) /\ hd' = 0
          ELSE /\ pc' = [pc EXCEPT ![Matcher] = "d_read"]
               /\ UNCHANGED <<m, q, hd>>
    /\ UNCHANGED <<qvars, running, order, pos, trades, dropped, cvars, hvars>>

\* *order = orders[head % capacity]
DeqRead ==
    /\ pc[Matcher] = "d_read"
    /\ m' = [m EXCEPT !.temp = orders[q[Matcher]][SlotOf(hd)]]
    /\ pc' = [pc EXCEPT ![Matcher] = "d_store"]
    /\ UNCHANGED <<qvars, running, lvars, trades, dropped, cvars, hvars>>

\* Mutant: head is stored back as it was read.
DeqAdvanceStuck ==
    /\ pc[Matcher] = "d_store"
    /\ head' = [head EXCEPT ![q[Matcher]] = hd]
    /\ deqd' = Record(deqd, q[Matcher], m.temp)
    /\ DeqReturn(TRUE, m.temp)
    /\ hd' = 0
    /\ UNCHANGED <<orders, tail, tailReservation, running, order, pos, trades, dropped, cvars,
                   resv, accepted, rejected, before, traced>>

\* store(head, head + 1); return true
DeqAdvance ==
    /\ pc[Matcher] = "d_store"
    /\ head' = [head EXCEPT ![q[Matcher]] = hd + 1]
    /\ deqd' = Record(deqd, q[Matcher], m.temp)
    /\ DeqReturn(TRUE, m.temp)
    /\ hd' = 0
    /\ UNCHANGED <<orders, tail, tailReservation, running, order, pos, trades, dropped, cvars,
                   resv, accepted, rejected, before, traced>>

dequeue ==
    \/ DeqLoadHead
    \/ DeqLoadTail
    \/ DeqRead
    \/ DeqAdvance

\* ----------------------------------------------------------- addOrder
\* Mutant: the two branches are swapped, a buy goes to the sell queue.
addOrderSwapped(p, orderType, ticker, quantity, price) ==
    /\ orderType \in Sides
    /\ order' = [order EXCEPT ![p] = Order(orderType, ticker, quantity, price)]
    /\ q' = [q EXCEPT ![p] = <<ticker, IF orderType = "B" THEN "S" ELSE "B">>]
    /\ pc' = [pc EXCEPT ![p] = "e_load"]
    /\ calls' = calls + 1
    /\ UNCHANGED <<qvars, running, pos, hd, m, trades, dropped, passes, deqs, hvars>>

\* addOrder(orderType, ticker, quantity, price): builds the order and calls
\* enqueue on the ticker's queue of that side.
addOrder(p, orderType, ticker, quantity, price) ==
    /\ orderType \in Sides
    /\ order' = [order EXCEPT ![p] = Order(orderType, ticker, quantity, price)]
    /\ q' = [q EXCEPT ![p] = <<ticker, orderType>>]
    /\ pc' = [pc EXCEPT ![p] = "e_load"]
    /\ calls' = calls + 1
    /\ UNCHANGED <<qvars, running, pos, hd, m, trades, dropped, passes, deqs, hvars>>

\* addOrder with a ticker outside 0 .. NUM_TICKERS - 1: &buyQueues[ticker] is not
\* an element of the array, and the enqueue on it is undefined behaviour; it
\* runs on the memory of some queue of the book, or on other memory, and the
\* thread is lost ("p_ub").
addOrderOutOfRange(p, orderType, ticker, quantity, price) ==
    /\ orderType \in Sides
    /\ ticker \notin Tickers
    /\ calls' = calls + 1
    /\ \/ /\ \E c \in Chans : q' = [q EXCEPT ![p] = c]
          /\ order' = [order EXCEPT ![p] = Order(orderType, ticker, quantity, price)]
          /\ pc' = [pc EXCEPT ![p] = "e_load"]
       \/ /\ pc' = [pc EXCEPT ![p] = "p_ub"]
          /\ UNCHANGED <<q, order>>
    /\ UNCHANGED <<qvars, running, pos, hd, m, trades, dropped, passes, deqs, hvars>>

\* ------------------------------------------- one channel, stand-alone
\* Producers that enqueue uniquely tagged orders into the buy queue of ticker 0
\* (the call number is the quantity, and moves the price), and one consumer
\* that calls dequeue on it.
TaggedProducer(p) ==
    /\ pc[p] = "p_loop"
    /\ calls < MaxCalls
    /\ addOrder(p, "B", 0, calls + 1, (MIN_PRICE + calls) * Cents)

Consumer ==
    /\ pc[Matcher] = "c_loop"
    /\ deqs < MaxDeqs
    /\ deqs' = deqs + 1
    /\ q' = [q EXCEPT ![Matcher] = <<0, "B">>]
    /\ pc' = [pc EXCEPT ![Matcher] = "d_head"]
    /\ UNCHANGED <<qvars, running, order, pos, hd, m, trades, dropped, calls, passes,
                   hvars>>

InitQueue ==
    /\ InitQueues
    /\ InitLocals
    /\ traced = TRUE
    /\ running = TRUE
    /\ pc = [t \in Threads |-> IF t = Matcher THEN "c_loop" ELSE "p_loop"]
    /\ m = Frame(0, "c_loop")

NextQueue ==
    \/ \E p \in Producers : TaggedProducer(p)
    \/ \E p \in Producers : enqueue(p)
    \/ Consumer
    \/ dequeue

SpecQueue == InitQueue /\ [][NextQueue]_vars


\* -------------------------------------------------------- matchOrders
\* (int)price
IntPrice(pr) == pr \div Cents

\* The inner loop of a bucket sort: the orders of src whose integer price is
\* price and whose quantity is positive, in their order in src.
Bucket(src, price) ==
    SelectSeq(src, LAMBDA o : IntPrice(o.price) = price /\ o.quantity > 0)

RECURSIVE BucketsUp(_, _, _)
\* The buckets lo, lo + 1, ..., hi one after the other (the range is halved so
\* that the evaluation does not nest once per price).
BucketsUp(src, lo, hi) ==
    IF lo > hi THEN <<>>
    ELSE IF lo = hi THEN Bucket(src, lo)
    ELSE LET mid == (lo + hi) \div 2
         IN BucketsUp(src, lo, mid) \o BucketsUp(src, mid + 1, hi)

RECURSIVE BucketsDown(_, _, _)
\* The buckets hi, hi - 1, ..., lo one after the other.
BucketsDown(src, hi, lo) ==
    IF lo > hi THEN <<>>
    ELSE IF lo = hi THEN Bucket(src, lo)
    ELSE LET mid == (lo + hi) \div 2
         IN BucketsDown(src, hi, mid + 1) \o BucketsDown(src, mid, lo)

\* for (price = 10; price <= 1000; price++) ...: sortedSell from sellOrders.
SortAscending(src) == BucketsUp(src, MIN_PRICE, MAX_PRICE)

\* Mutant: the buys are sorted like the sells, cheapest first.
SortDescendingUp(src) == BucketsUp(src, MIN_PRICE, MAX_PRICE)

\* for (price = 1000; price >= 10; price--) ...: sortedBuy from buyOrders.
SortDescending(src) == BucketsDown(src, MAX_PRICE, MIN_PRICE)

\* Mutant: the comparison of the two prices is turned round.
CrossesReversed(buy, sell) == buy.price <= sell.price

\* The condition of the two-pointer match.
Crosses(buy, sell) == buy.price >= sell.price

\* Mutant: the larger of the two quantities is matched.
MatchedQtyMax(buy, sell) == IF buy.quantity > sell.quantity THEN buy.quantity ELSE sell.quantity

\* matchedQty
MatchedQty(buy, sell) == Min(buy.quantity, sell.quantity)

\* Mutant: a trade is priced at the buy order's price.
TradePriceOfBuy(buy, sell) == buy.price

\* The price of a trade: the sell order's.
TradePrice(buy, sell) == sell.price

\* The quantity resident in the two queues of ticker tk.
ResidentQty(tk) == SumQty(Resident(<<tk, "B">>)) + SumQty(Resident(<<tk, "S">>))

\* matchOrders(tk) is called: the frame is fresh and the drain of the buy queue
\* starts with its first dequeue.
CallMatchOrders(tk) ==
    /\ passes < MaxPasses
    /\ passes' = passes + 1
    /\ m' = [Frame(tk, "m_drainB") EXCEPT !.loopTicker = m.loopTicker]
    /\ trades' = <<>>
    /\ before' = IF traced THEN ResidentQty(tk) ELSE before
    /\ q' = [q EXCEPT ![Matcher] = <<tk, "B">>]
    /\ pc' = [pc EXCEPT ![Matcher] = "d_head"]
    /\ UNCHANGED <<qvars, running, order, pos, hd, dropped, calls, deqs, resv,
                   deqd, accepted, rejected, traced>>

\* matchOrders returns to matcherThread's for loop.
ReturnMatchOrders ==
    /\ m' = [m EXCEPT !.phase = "m_for", !.loopTicker = @ + 1]
    /\ pc' = [pc EXCEPT ![Matcher] = "m_for"]
    /\ UNCHANGED <<qvars, running, lvars, trades, dropped, cvars, hvars>>

\* matchOrders calls enqueue(queue of side, o) from the loop at m.phase.
CallEnqueue(side, o) ==
    /\ order' = [order EXCEPT ![Matcher] = o]
    /\ q' = [q EXCEPT ![Matcher] = <<m.ticker, side>>]
    /\ pc' = [pc EXCEPT ![Matcher] = "e_load"]
    /\ UNCHANGED <<qvars, running, pos, hd, m, trades, dropped, cvars, hvars>>

\* A re-enqueue loop goes on to the loop `next`, or (next = "m_for") returns.
LoopExit(next) ==
    IF next = "m_for"
       THEN ReturnMatchOrders
       ELSE /\ m' = [m EXCEPT !.phase = next, !.k = 0]
            /\ pc' = [pc EXCEPT ![Matcher] = next]
            /\ UNCHANGED <<qvars, running, lvars, trades, dropped, cvars, hvars>>

\* Mutant: no early exit for an empty side; both sides are always sorted.
MatchSortAlways ==
    /\ pc[Matcher] = "m_sort"
    /\ m' = [m EXCEPT !.phase = "m_cross",
                      !.sortedSell = SortAscending(m.sellOrders),
                      !.sortedBuy = SortDescending(m.buyOrders),
                      !.i = 0, !.j = 0]
    /\ pc' = [pc EXCEPT ![Matcher] = "m_cross"]
    /\ UNCHANGED <<qvars, running, lvars, trades, dropped, cvars, hvars>>

\* After the drains: with an empty side the drained orders go back as they are;
\* otherwise both sides are bucket sorted.
MatchSort ==
    /\ pc[Matcher] = "m_sort"
    /\ IF Len(m.buyOrders) = 0 \/ Len(m.sellOrders) = 0
          THEN /\ m' = [m EXCEPT !.phase = "m_reB0", !.k = 0]
               /\ pc' = [pc EXCEPT ![Matcher] = "m_reB0"]
          ELSE /\ m' = [m EXCEPT !.phase = "m_cross",
                                 !.sortedSell = SortAscending(m.sellOrders),
                                 !.sortedBuy = SortDescending(m.buyOrders),
                                 !.i = 0, !.j = 0]
               /\ pc' = [pc EXCEPT ![Matcher] = "m_cross"]
    /\ UNCHANGED <<qvars, running, lvars, trades, dropped, cvars, hvars>>

\* Mutant: the two advance tests are swapped: i moves on when the sell is
\* filled and j when the buy is.
MatchCrossSwapped ==
    /\ pc[Matcher] = "m_cross"
    /\ IF m.i < Len(m.sortedBuy) /\ m.j < Len(m.sortedSell)
            /\ Crosses(m.sortedBuy[m.i + 1], m.sortedSell[m.j + 1])
          THEN LET buy == m.sortedBuy[m.i + 1]
                   sell == m.sortedSell[m.j + 1]
                   matchedQty == MatchedQty(buy, sell)
               IN /\ trades' = Append(trades, [ticker |-> m.ticker,
                                               quantity |-> matchedQty,
                                               price |-> TradePrice(buy, sell)])
                  /\ m' = [m EXCEPT
                             !.sortedBuy[m.i + 1].quantity = @ - matchedQty,
                             !.sortedSell[m.j + 1].quantity = @ - matchedQty,
                             !.i = IF sell.quantity - matchedQty = 0 THEN @ + 1 ELSE @,
                             !.j = IF buy.quantity - matchedQty = 0 THEN @ + 1 ELSE @]
                  /\ UNCHANGED pc
          ELSE /\ m' = [m EXCEPT !.phase = "m_reB", !.k = 0]
               /\ pc' = [pc EXCEPT ![Matcher] = "m_reB"]
               /\ UNCHANGED trades
    /\ UNCHANGED <<qvars, running, lvars, dropped, cvars, hvars>>

\* One iteration of the two-pointer loop (i and j count from 0).
MatchCross ==
    /\ pc[Matcher] = "m_cross"
    /\ IF m.i < Len(m.sortedBuy) /\ m.j < Len(m.sortedSell)
            /\ Crosses(m.sortedBuy[m.i + 1], m.sortedSell[m.j + 1])
          THEN LET buy == m.sortedBuy[m.i + 1]
                   sell == m.sortedSell[m.j + 1]
                   matchedQty == MatchedQty(buy, sell)
               IN /\ trades' = Append(trades, [ticker |-> m.ticker,
                                               quantity |-> matchedQty,
                                               price |-> TradePrice(buy, sell)])
                  /\ m' = [m EXCEPT
                             !.sortedBuy[m.i + 1].quantity = @ - matchedQty,
                             !.sortedSell[m.j + 1].quantity = @ - matchedQty,
                             !.i = IF buy.quantity - matchedQty = 0 THEN @ + 1 ELSE @,
                             !.j = IF sell.quantity - matchedQty = 0 THEN @ + 1 ELSE @]
                  /\ UNCHANGED pc
          ELSE /\ m' = [m EXCEPT !.phase = "m_reB", !.k = 0]
               /\ pc' = [pc EXCEPT ![Matcher] = "m_reB"]
               /\ UNCHANGED trades
    /\ UNCHANGED <<qvars, running, lvars, dropped, cvars, hvars>>

\* One iteration of a re-enqueue loop at pc `here` over `list` into the queue of
\* `side`; `filter` is the loop's test of quantity > 0.
ReEnqueueLoop(here, list, side, filter, next) ==
    /\ pc[Matcher] = here
    /\ IF m.k < Len(list)
          THEN IF filter => list[m.k + 1].quantity > 0
                  THEN CallEnqueue(side, list[m.k + 1])
                  ELSE /\ m' = [m EXCEPT !.k = @ + 1]
                       /\ UNCHANGED <<qvars, running, pc, lvars, trades, dropped,
                                      cvars, hvars>>
          ELSE LoopExit(next)

\* Mutant: the loop over the sorted buys has lost its test of quantity > 0.
ReBuyRestUnfiltered == ReEnqueueLoop("m_reB", m.sortedBuy, "B", FALSE, "m_reS")

ReBuyAll == ReEnqueueLoop("m_reB0", m.buyOrders, "B", FALSE, "m_reS0")
ReSellAll == ReEnqueueLoop("m_reS0", m.sellOrders, "S", FALSE, "m_for")
ReBuyRest == ReEnqueueLoop("m_reB", m.sortedBuy, "B", TRUE, "m_reS")
ReSellRest == ReEnqueueLoop("m_reS", m.sortedSell, "S", TRUE, "m_for")

matchOrders ==
    \/ dequeue
    \/ MatchSort
    \/ MatchCross
    \/ ReBuyAll
    \/ ReSellAll
    \/ ReBuyRest
    \/ ReSellRest
    \/ enqueue(Matcher)

\* ------------------------------------------------------------ threads
\* matcherThread: while (running) { for (ticker ...) matchOrders(ticker); }
\* A sweep over the tickers starts only while MaxPasses leaves room for all its
\* passes, so that the bound never stops the matcher inside a sweep.
MatcherLoop ==
    /\ pc[Matcher] = "m_loop"
    /\ IF running
          THEN /\ passes + NUM_TICKERS <= MaxPasses
               /\ m' = [m EXCEPT !.loopTicker = 0, !.phase = "m_for"]
               /\ pc' = [pc EXCEPT ![Matcher] = "m_for"]
          ELSE /\ m' = m
               /\ pc' = [pc EXCEPT ![Matcher] = "m_done"]
    /\ UNCHANGED <<qvars, running, lvars, trades, dropped, cvars, hvars>>

MatcherFor ==
    /\ pc[Matcher] = "m_for"
    /\ IF m.loopTicker < NUM_TICKERS
          THEN CallMatchOrders(m.loopTicker)
          ELSE /\ pc' = [pc EXCEPT ![Matcher] = "m_loop"]
               /\ UNCHANGED <<qvars, running, lvars, m, trades, dropped, cvars, hvars>>

matcherThread ==
    \/ MatcherLoop
    \/ MatcherFor
    \/ matchOrders

\* ------------------------------------------------ one pass, no producer
\* The orders the queues of ticker 0 hold before the pass.
BuyVals ==
    {Order("B", 0, 20, 100 * Cents), Order("B", 0, 10, 90 * Cents),
     Order("B", 0, 15, 95 * Cents), Order("B", 0, 5, 95 * Cents)}
SellVals ==
    {Order("S", 0, 15, 95 * Cents), Order("S", 0, 25, 100 * Cents),
     Order("S", 0, 10, 90 * Cents), Order("S", 0, 5, 95 * Cents)}

\* The sequences over S of length at most n.
SeqsUpTo(S, n) == UNION {[1 .. l -> S] : l \in 0 .. n}

\* A queue after the orders of s were enqueued into it, one call after the other.
Filled(s) == [n \in Slots |-> IF n < Len(s) THEN s[n + 1] ELSE ZeroOrder]

InitMatch ==
    /\ \E bs \in SeqsUpTo(BuyVals, QUEUE_CAPACITY), ss \in SeqsUpTo(SellVals, QUEUE_CAPACITY) :
          /\ orders = [c \in Chans |->
                         IF c = <<0, "B">> THEN Filled(bs)
                         ELSE IF c = <<0, "S">> THEN Filled(ss)
                         ELSE Filled(<<>>)]
          /\ head = [c \in Chans |-> 0]
          /\ tail = [c \in Chans |->
                         IF c = <<0, "B">> THEN Len(bs)
                         ELSE IF c = <<0, "S">> THEN Len(ss) ELSE 0]
          /\ tailReservation = tail
    /\ InitLocals
    /\ traced = TRUE
    /\ running = TRUE
    /\ pc = [t \in Threads |-> IF t = Matcher THEN "m_loop" ELSE "p_loop"]
    /\ m = Frame(0, "m_loop")

NextMatch == matcherThread

SpecMatch == InitMatch /\ [][NextMatch]_vars


\* ------------------------------------------------------ the whole system
\* The quantities and prices producerThread draws (1..500 and 10..1000 in the
\* source), scaled down.
Quantities == {1, 2}
Prices == {10 * Cents}

\* producerThread: while (running) { addOrder(random order); usleep; }
producerLoop(p) ==
    /\ pc[p] = "p_loop"
    /\ IF running
          THEN /\ calls < MaxOrders
               /\ \E orderType \in Sides, ticker \in Tickers,
                     quantity \in Quantities, price \in Prices :
                       addOrder(p, orderType, ticker, quantity, price)
          ELSE /\ pc' = [pc EXCEPT ![p] = "p_done"]
               /\ UNCHANGED <<qvars, running, lvars, m, trades, dropped, cvars, hvars>>

producerThread(p) ==
    \/ producerLoop(p)
    \/ enqueue(p)

\* main: atomic_store(&running, false) after the simulation time.
Stop ==
    /\ running
    /\ running' = FALSE
    /\ UNCHANGED <<qvars, pc, lvars, m, trades, dropped, cvars, hvars>>

Init ==
    /\ InitQueues
    /\ InitLocals
    /\ traced = FALSE
    /\ running = TRUE
    /\ pc = [t \in Threads |-> IF t = Matcher THEN "m_loop" ELSE "p_loop"]
    /\ m = Frame(0, "m_loop")

Next ==
    \/ \E p \in Producers : producerThread(p)
    \/ matcherThread
    \/ Stop

Spec == Init /\ [][Next]_vars


\* ------------------------------------------ the system, scheduled fairly
\* The producers submit a fixed series of orders for ticker 0 (buys and sells
\* in turn, the call number as the quantity, one price) while the matcher
\* runs its passes; a thread inside enqueue is eventually scheduled.
SeriesProducer(p) ==
    /\ pc[p] = "p_loop"
    /\ calls < MaxOrders
    /\ addOrder(p, IF calls % 2 = 0 THEN "B" ELSE "S", 0, calls + 1, MIN_PRICE * Cents)

NextLive ==
    \/ \E p \in Producers : SeriesProducer(p)
    \/ \E p \in Producers : enqueue(p)
    \/ matcherThread

InitLive ==
    /\ InitQueues
    /\ InitLocals
    /\ traced = TRUE
    /\ running = TRUE
    /\ pc = [t \in Threads |-> IF t = Matcher THEN "m_loop" ELSE "p_loop"]
    /\ m = Frame(0, "m_loop")

SpecLive ==
    /\ InitLive
    /\ [][NextLive]_vars
    /\ \A t \in Threads : WF_vars(enqueue(t))

\* ---------------------------------- the system stopped, scheduled fairly
\* The producers submit the fixed series of orders while running is true and
\* leave their loop once it is false; main stops the run at any moment.  Every
\* thread that can take a step eventually takes one, main's sleep ends, and a
\* weak compare-exchange whose expected value is the current one does not fail
\* forever.
NextStop ==
    \/ \E p \in Producers : running /\ SeriesProducer(p)
    \/ \E p \in Producers : ~running /\ producerLoop(p)
    \/ \E p \in Producers : enqueue(p)
    \/ matcherThread
    \/ Stop

ThreadStep(t) ==
    IF t = Matcher
       THEN matcherThread
       ELSE \/ running /\ SeriesProducer(t)
            \/ ~running /\ producerLoop(t)
            \/ enqueue(t)

SpecStop ==
    /\ Init
    /\ [][NextStop]_vars
    /\ \A t \in Threads : WF_vars(ThreadStep(t))
    /\ \A t \in Threads : SF_vars(EnqCas(t) /\ pc'[t] = "e_write1")
    /\ WF_vars(Stop)

\* -------------------------------------------- orders for every ticker
\* The producers submit a fixed series of orders that goes round the tickers
\* (buys for each ticker, then sells for each, and so on, the call number as
\* the quantity) while the matcher sweeps the tickers.
RoundProducer(p) ==
    /\ pc[p] = "p_loop"
    /\ calls < MaxOrders
    /\ addOrder(p, IF (calls \div NUM_TICKERS) % 2 = 0 THEN "B" ELSE "S",
                calls % NUM_TICKERS, calls + 1, MIN_PRICE * Cents)

NextRound ==
    \/ \E p \in Producers : RoundProducer(p)
    \/ \E p \in Producers : enqueue(p)
    \/ matcherThread

SpecRound == Init /\ [][NextRound]_vars

\* ------------------------------------- a burst of buys during the passes
\* The sell queue of ticker 0 holds one order priced above every buy; the
\* producers submit their tagged buys for ticker 0 while the matcher runs.
RestingSell == Order("S", 0, 1, MAX_PRICE * Cents)

InitBurst ==
    /\ orders = [c \in Chans |->
                   IF c = <<0, "S">> THEN Filled(<<RestingSell>>) ELSE Filled(<<>>)]
    /\ head = [c \in Chans |-> 0]
    /\ tail = [c \in Chans |-> IF c = <<0, "S">> THEN 1 ELSE 0]
    /\ tailReservation = tail
    /\ InitLocals
    /\ traced = TRUE
    /\ running = TRUE
    /\ pc = [t \in Threads |-> IF t = Matcher THEN "m_loop" ELSE "p_loop"]
    /\ m = Frame(0, "m_loop")

NextBurst ==
    \/ \E p \in Producers : TaggedProducer(p)
    \/ \E p \in Producers : enqueue(p)
    \/ matcherThread

SpecBurst == InitBurst /\ [][NextBurst]_vars

\* --------------------------------------- callers with bad arguments
\* The arguments the callers of addOrder pass: a quantity that is not
\* positive, a price outside 10 .. 1000, a ticker that is not one.
Submissions ==
    {Order("B", 0, 0, MIN_PRICE * Cents),
     Order("S", 0, 1, (MIN_PRICE \div 2) * Cents),
     Order("B", NUM_TICKERS, 1, MIN_PRICE * Cents)}

Submit(p) ==
    /\ pc[p] = "p_loop"
    /\ calls < MaxCalls
    /\ \E o \in Submissions :
          IF o.ticker \in Tickers
             THEN addOrder(p, o.type, o.ticker, o.quantity, o.price)
             ELSE addOrderOutOfRange(p, o.type, o.ticker, o.quantity, o.price)

NextSubmit ==
    \/ \E p \in Producers : Submit(p)
    \/ \E p \in Producers : enqueue(p)
    \/ matcherThread

SpecSubmit == Init /\ [][NextSubmit]_vars

\* ================================================================ claims
\* The channel of the stand-alone producers and consumer.
QC == <<0, "B">>
\* An enqueue call holds a reserved, unpublished slot.
ReservedPcs == {"e_write1", "e_write2", "e_spin", "e_store"}
\* An enqueue call has not reserved a slot yet.
UnreservedPcs == {"e_load", "e_head", "e_cas"}
\* No enqueue call is in progress and the consumer is between two calls.
Quiet == (\A p \in Producers : pc[p] = "p_loop") /\ pc[Matcher] = "c_loop"

\* C1: the sequence of values dequeue returned is the sequence of enqueued
\* orders taken in the order of the slot indices their reservations were
\* granted (a prefix of it: the orders dequeued so far), whatever the order in
\* which the slot writes completed.
C1_FifoByReservation ==
    /\ Len(deqd[QC]) <= Len(resv[QC])
    /\ deqd[QC] = SubSeq(resv[QC], 1, Len(deqd[QC]))

\* C1 witness: three orders were dequeued (the ring wrapped), and the first one
\* is the second call's: the reservations were not granted in call order.
C1_Witness ==
    /\ Len(deqd[QC]) >= 3
    /\ deqd[QC][1].quantity = 2

\* C2: no value is dequeued more often than it was enqueued with result true
\* (none twice, none that was not accepted), and once every enqueue has
\* returned and the queue is drained, the dequeued values are, as a multiset,
\* the accepted ones.
C2_NoLossNoDup ==
    /\ \A x \in Range(deqd[QC]) : Count(deqd[QC], x) <= Count(accepted[QC], x)
    /\ (Quiet /\ head[QC] = tail[QC]) => SameBag(deqd[QC], accepted[QC])

\* C2 witness: all is quiet and drained after the capacity was dequeued and one
\* enqueue was rejected.
C2_Witness ==
    /\ Quiet
    /\ head[QC] = tail[QC]
    /\ Len(deqd[QC]) >= QUEUE_CAPACITY
    /\ Len(rejected[QC]) >= 1

\* C3: the occupancy tailReservation - head never exceeds the capacity; as long
\* as nothing was dequeued at most capacity reservations are granted and at
\* most capacity calls return true, and a call returns false only when
\* capacity reservations were granted.
C3_CapacityBound ==
    \A c \in Chans :
        /\ tailReservation[c] - head[c] <= QUEUE_CAPACITY
        /\ head[c] = 0 =>
              /\ Len(resv[c]) <= QUEUE_CAPACITY
              /\ Len(accepted[c]) <= QUEUE_CAPACITY
              /\ rejected[c] # <<>> => tailReservation[c] = QUEUE_CAPACITY

\* C3 witness: nothing was dequeued, capacity calls returned true and a further
\* one returned false.
C3_Witness ==
    /\ head[QC] = 0
    /\ Quiet
    /\ Len(accepted[QC]) = QUEUE_CAPACITY
    /\ Len(rejected[QC]) >= 1

\* C4: head <= tail <= tailReservation <= head + capacity in every state.
C4_CounterOrder ==
    \A c \in Chans :
        /\ head[c] <= tail[c]
        /\ tail[c] <= tailReservation[c]
        /\ tailReservation[c] <= head[c] + QUEUE_CAPACITY

\* C4 witness: the three counters differ, and the ring is full and has wrapped.
C4_Witness ==
    /\ 0 < head[QC]
    /\ head[QC] < tail[QC]
    /\ tail[QC] < tailReservation[QC]
    /\ tailReservation[QC] = head[QC] + QUEUE_CAPACITY

\* C6: a call that returns false has left no trace.  Every granted reservation
\* belongs to a call that returned true or to one that still holds its slot,
\* tail counts the calls that returned true and head the dequeued values (the
\* rejected calls account for nothing); no step of a call that has not reserved
\* a slot changes a counter or a slot; and no step changes a slot that holds a
\* published, not yet dequeued order.
C6_Accounting ==
    \A c \in Chans :
        /\ tailReservation[c] = Len(accepted[c])
              + Cardinality({t \in Threads : pc[t] \in ReservedPcs /\ q[t] = c})
        /\ tail[c] = Len(accepted[c])
        /\ head[c] = Len(deqd[c])

C6_Steps ==
    /\ \A t \in Threads :
          (pc[t] \in UnreservedPcs /\ pc'[t] # pc[t] /\ pc'[t] \notin ReservedPcs)
             => UNCHANGED qvars
    /\ \A c \in Chans : \A n \in head[c] .. (tail[c] - 1) :
          orders'[c][SlotOf(n)] = orders[c][SlotOf(n)]

C6_RejectNoEffect == []C6_Accounting /\ [][C6_Steps]_vars

\* C6 witness: an enqueue was rejected and has returned while the ring was full
\* of published orders.
C6_Witness ==
    /\ Len(rejected[QC]) >= 1
    /\ tail[QC] - head[QC] = QUEUE_CAPACITY
    /\ Quiet

\* C7: the value dequeue reads at index head is the one the enqueue granted
\* that index wrote, that enqueue has left its publish step, and with
\* head = tail the dequeue call returns empty, changing nothing, whether or not
\* slots are reserved or written beyond tail; no step of dequeue waits.
C7_Invariant ==
    /\ pc[Matcher] \in {"d_read", "d_store"} =>
          /\ hd < tail[q[Matcher]]
          /\ hd < Len(resv[q[Matcher]])
          /\ orders[q[Matcher]][SlotOf(hd)] = resv[q[Matcher]][hd + 1]
          /\ \A t \in Producers :
                ~(pc[t] \in ReservedPcs /\ q[t] = q[Matcher] /\ pos[t] = hd)
    /\ pc[Matcher] = "d_store" => m.temp = resv[q[Matcher]][hd + 1]
    /\ pc[Matcher] \in {"d_head", "d_tail", "d_read", "d_store"} => ENABLED dequeue

C7_EmptyAction ==
    (pc[Matcher] = "d_tail" /\ pc'[Matcher] # "d_tail"
        /\ head[q[Matcher]] = tail[q[Matcher]])
      => (pc'[Matcher] = "c_loop" /\ UNCHANGED <<qvars, deqd>>)

C7_VisibleAfterPublish == []C7_Invariant /\ [][C7_EmptyAction]_vars

\* C7 witness: the consumer has had an empty result and is finding the queue
\* empty again (head = tail) while two slots are reserved, the second written
\* and waiting for its turn to publish.
C7_Witness ==
    /\ pc[Matcher] = "d_tail"
    /\ hd = tail[QC]
    /\ deqs - Len(deqd[QC]) >= 2
    /\ tailReservation[QC] = tail[QC] + 2
    /\ \E p \in Producers : pc[p] = "e_spin" /\ pos[p] = tail[QC] + 1


\* matchOrders has returned (and the next call has not started).
PassDone == pc[Matcher] \in {"m_for", "m_loop"} /\ passes > 0

\* C8: after a pass over valid orders, the quantity resident in the ticker's
\* two channels before the pass minus the quantity resident after it is twice
\* the quantity of the trades of the pass.
C8_QuantityConserved ==
    PassDone => before - ResidentQty(m.ticker) = 2 * SumQty(trades)

\* C8 witness: a pass has emitted two trades and has left orders in both
\* channels, one of them partially filled.
C8_Witness ==
    /\ PassDone
    /\ Len(trades) >= 2
    /\ Resident(<<m.ticker, "B">>) # <<>>
    /\ \E n \in DOMAIN Resident(<<m.ticker, "S">>) :
          Resident(<<m.ticker, "S">>)[n] \notin SellVals

\* C9: after a pass that drained the buys (price 100, qty 20), (90, 10) and the
\* sells (95, 15), (100, 25), in any queue order, the trades are (qty 15,
\* price 95) then (qty 5, price 100), the buy channel holds (90, 10) only and
\* the sell channel (100, 20) only.
C9_Drained ==
    /\ PassDone
    /\ Len(m.buyOrders) = 2
    /\ Len(m.sellOrders) = 2
    /\ SameBag(m.buyOrders, <<Order("B", 0, 20, 100 * Cents), Order("B", 0, 10, 90 * Cents)>>)
    /\ SameBag(m.sellOrders, <<Order("S", 0, 15, 95 * Cents), Order("S", 0, 25, 100 * Cents)>>)

C9_CrossingExample ==
    C9_Drained =>
        /\ trades = <<[ticker |-> 0, quantity |-> 15, price |-> 95 * Cents],
                      [ticker |-> 0, quantity |-> 5, price |-> 100 * Cents]>>
        /\ Resident(<<0, "B">>) = <<Order("B", 0, 10, 90 * Cents)>>
        /\ Resident(<<0, "S">>) = <<Order("S", 0, 20, 100 * Cents)>>

\* C9 witness: the pass over the four orders, queued in the order of the
\* example, is over.
C9_Witness ==
    /\ C9_Drained
    /\ m.buyOrders[1].price = 100 * Cents
    /\ m.sellOrders[1].price = 95 * Cents
    /\ Len(trades) = 2

\* C10: after a pass that drained nothing from one side, there is no trade and
\* the channel of the other side holds the orders drained from it, unchanged
\* and in the order they were dequeued in.
C10_EmptySideNoOp ==
    (PassDone /\ (Len(m.buyOrders) = 0 \/ Len(m.sellOrders) = 0)) =>
        /\ trades = <<>>
        /\ Resident(<<m.ticker, "B">>) = m.buyOrders
        /\ Resident(<<m.ticker, "S">>) = m.sellOrders

\* C10 witness: a pass drained no sell and two buys, the cheaper one first, and
\* is over.
C10_Witness ==
    /\ PassDone
    /\ Len(m.sellOrders) = 0
    /\ Len(m.buyOrders) = 2
    /\ m.buyOrders[1].price < m.buyOrders[2].price


\* C5: under weak fairness of the threads inside enqueue, a call that holds a
\* reserved slot eventually leaves enqueue, and it leaves it only by the store
\* that advances tail from its pos to pos + 1, returning true.
C5_Leaves ==
    \A t \in Threads :
        (pc[t] \in ReservedPcs /\ pc'[t] \notin ReservedPcs) =>
            /\ tail[q[t]] = pos[t]
            /\ tail'[q[t]] = pos[t] + 1
            /\ accepted'[q[t]] = Append(accepted[q[t]], order[t])

C5_PublishTerminates ==
    /\ \A t \in Threads : (pc[t] \in ReservedPcs) ~> (pc[t] \notin ReservedPcs)
    /\ [][C5_Leaves]_vars

\* C5 witness: the matcher, re-enqueueing a remainder, waits in the publish
\* spin behind a producer that has reserved the slot before but not written it.
C5_Witness ==
    /\ pc[Matcher] = "e_spin"
    /\ \E p \in Producers :
          /\ pc[p] = "e_write1"
          /\ q[p] = q[Matcher]
          /\ pos[p] < pos[Matcher]


\* The number of enqueue calls that returned false.
RECURSIVE SumLen(_, _)
SumLen(h, cs) ==
    IF cs = {} THEN 0
    ELSE LET c == CHOOSE x \in cs : TRUE IN Len(h[c]) + SumLen(h, cs \ {c})

\* C11: every enqueue that returned false is reported; in particular the order
\* a matching pass drained and failed to re-publish has a line in the output
\* (the only report of a refused order the program prints is addOrder's
\* "Order dropped.").
C11_LossSurfaced == SumLen(rejected, Chans) = dropped


\* An order that submit_order is to let through.
ValidOrder(o) ==
    /\ o.ticker \in Tickers
    /\ o.quantity > 0
    /\ o.price >= MIN_PRICE * Cents
    /\ o.price <= MAX_PRICE * Cents

\* C12: an order with a ticker outside the book, a quantity that is not
\* positive or a price outside [MIN_PRICE, MAX_PRICE] changes no counter and
\* no slot of any channel and is never drained by a matching pass: where only
\* such orders are submitted the book stays as initOrderBook left it and the
\* passes drain nothing.
C12_InvalidRejected ==
    /\ \A c \in Chans :
          /\ tailReservation[c] = 0
          /\ tail[c] = 0
          /\ orders[c] = [s \in Slots |-> ZeroOrder]
    /\ \A o \in Range(m.buyOrders) \cup Range(m.sellOrders) : ValidOrder(o)


\* C13: in a run where no producer is active during the passes, every enqueue
\* by which a pass re-publishes an order returns true: no call returns false,
\* and the matcher never leaves the full check of enqueue but to reserve.
C13_Invariant == \A c \in Chans : rejected[c] = <<>>

C13_Step == (pc[Matcher] = "e_head" /\ pc'[Matcher] # "e_head") => pc'[Matcher] = "e_cas"

C13_RepublishSucceeds == []C13_Invariant /\ [][C13_Step]_vars

\* C13 witness: a pass has re-published a full queue of buys and a sell, and
\* is over.
C13_Witness ==
    /\ PassDone
    /\ Len(accepted[<<0, "B">>]) = QUEUE_CAPACITY
    /\ Len(accepted[<<0, "S">>]) >= 1


\* Every producer loop and the matcher loop have terminated.
AllDone == (\A p \in Producers : pc[p] = "p_done") /\ pc[Matcher] = "m_done"

\* C14: once running is false every producer loop and the matcher loop
\* eventually terminate; a loop is left only from its head, between two
\* invocations; and when all have terminated every channel has
\* tail = tailReservation and the matcher holds no pass that has not returned.
C14_Clean ==
    AllDone =>
        /\ \A c \in Chans : tail[c] = tailReservation[c]
        /\ m.phase \in {"m_loop", "m_for"}
        /\ \A t \in Threads : order[t] = ZeroOrder

C14_Exit ==
    /\ \A p \in Producers : (pc[p] # "p_done" /\ pc'[p] = "p_done") => pc[p] = "p_loop"
    /\ (pc[Matcher] # "m_done" /\ pc'[Matcher] = "m_done") => pc[Matcher] = "m_loop"

C14_StopsClean ==
    /\ (~running) ~> AllDone
    /\ []C14_Clean
    /\ [][C14_Exit]_vars

\* C14 witness: all loops have terminated on a stop that came before the
\* producers had submitted their whole series, after the matcher swept the
\* tickers and with an order left resident in a channel.
C14_Witness ==
    /\ AllDone
    /\ calls < MaxOrders
    /\ passes = NUM_TICKERS
    /\ \E c \in Chans : tail[c] > head[c]


\* C15: after a pass over valid orders with no producer active, every buy
\* left in the buy channel is priced strictly below every sell left in the
\* sell channel: the stop at the first head pair that does not cross leaves no
\* pair that crosses.
C15_NoCrossLeft ==
    PassDone =>
        \A b \in Range(Resident(<<m.ticker, "B">>)) :
            \A a \in Range(Resident(<<m.ticker, "S">>)) : b.price < a.price

\* C15 witness: a pass over two buys, dequeued cheapest first, and two sells
\* has traded and then stopped with orders left on both sides.
C15_Witness ==
    /\ PassDone
    /\ Len(m.buyOrders) = 2
    /\ Len(m.sellOrders) = 2
    /\ m.buyOrders[1].price < m.buyOrders[2].price
    /\ Len(trades) >= 1
    /\ Resident(<<m.ticker, "B">>) # <<>>
    /\ Resident(<<m.ticker, "S">>) # <<>>

\* The orders of s at price pr, in their order in s.
AtPrice(s, pr) == SelectSeq(s, LAMBDA o : o.price = pr)

\* C16: the sorted arrays hold the drained orders, those of one price in the
\* order they were dequeued in; each trade takes the first of the highest
\* priced buys with quantity left and the first of the lowest priced sells with
\* quantity left, the buy priced at or above the sell; its quantity is the
\* smaller of the two quantities left, its price the sell's, and it takes that
\* quantity off both orders and changes no other order.
C16_Sorted ==
    (pc[Matcher] = "m_sort" /\ pc'[Matcher] = "m_cross") =>
        /\ SameBag(m'.sortedBuy, m.buyOrders)
        /\ SameBag(m'.sortedSell, m.sellOrders)
        /\ \A o \in Range(m.buyOrders) :
              AtPrice(m'.sortedBuy, o.price) = AtPrice(m.buyOrders, o.price)
        /\ \A o \in Range(m.sellOrders) :
              AtPrice(m'.sortedSell, o.price) = AtPrice(m.sellOrders, o.price)

C16_Trade ==
    (pc[Matcher] = "m_cross" /\ trades' # trades) =>
        LET buy == m.sortedBuy[m.i + 1]
            sell == m.sortedSell[m.j + 1]
            trade == trades'[Len(trades')]
        IN /\ trades' = Append(trades, trade)
           /\ buy.quantity > 0
           /\ sell.quantity > 0
           /\ \A n \in DOMAIN m.sortedBuy :
                 (m.sortedBuy[n].quantity > 0) =>
                     \/ m.sortedBuy[n].price < buy.price
                     \/ m.sortedBuy[n].price = buy.price /\ n >= m.i + 1
           /\ \A n \in DOMAIN m.sortedSell :
                 (m.sortedSell[n].quantity > 0) =>
                     \/ m.sortedSell[n].price > sell.price
                     \/ m.sortedSell[n].price = sell.price /\ n >= m.j + 1
           /\ buy.price >= sell.price
           /\ trade.quantity <= buy.quantity
           /\ trade.quantity <= sell.quantity
           /\ trade.quantity \in {buy.quantity, sell.quantity}
           /\ trade.price = sell.price
           /\ trade.ticker = m.ticker
           /\ m'.sortedBuy =
                 [m.sortedBuy EXCEPT ![m.i + 1].quantity = buy.quantity - trade.quantity]
           /\ m'.sortedSell =
                 [m.sortedSell EXCEPT ![m.j + 1].quantity = sell.quantity - trade.quantity]

C16_TradeRule == [][C16_Sorted /\ C16_Trade]_vars

\* C16 witness: a pass over two buys of one price, the smaller dequeued first,
\* and two sells, the first priced below the buys, has emitted three trades.
C16_Witness ==
    /\ pc[Matcher] = "m_reB"
    /\ Len(m.buyOrders) = 2
    /\ Len(m.sellOrders) = 2
    /\ m.buyOrders[1].price = m.buyOrders[2].price
    /\ m.buyOrders[1].quantity < m.buyOrders[2].quantity
    /\ m.sellOrders[1].price < m.buyOrders[1].price
    /\ Len(trades) = 3

\* C20: each iteration of the two-pointer loop that emits a trade matches a
\* positive quantity and moves i or j on, neither beyond its array, so the
\* loop ends; a pass over b sorted buys and s sorted sells emits at most
\* b + s - 1 trades.
C20_Progress ==
    (pc[Matcher] = "m_cross" /\ trades' # trades) =>
        /\ trades'[Len(trades')].quantity > 0
        /\ m'.i >= m.i
        /\ m'.j >= m.j
        /\ m'.i + m'.j > m.i + m.j
        /\ m'.i <= Len(m.sortedBuy)
        /\ m'.j <= Len(m.sortedSell)

C20_Bound ==
    /\ Len(trades) <= m.i + m.j
    /\ IF m.sortedBuy = <<>> \/ m.sortedSell = <<>>
          THEN trades = <<>>
          ELSE Len(trades) <= Len(m.sortedBuy) + Len(m.sortedSell) - 1

C20_CrossTerminates == []C20_Bound /\ [][C20_Progress]_vars

\* C20 witness: a pass over b = 2 buys and s = 2 sells has left its loop after
\* b + s - 1 = 3 trades, one of them filling both its orders at once.
C20_Witness ==
    /\ pc[Matcher] = "m_reS"
    /\ Len(m.sortedBuy) = 2
    /\ Len(m.sortedSell) = 2
    /\ Len(trades) = 3
    /\ m.i = 2
    /\ m.j = 2


\* The positions of a thread inside enqueue.
EnqueuePcs == UnreservedPcs \cup ReservedPcs

\* C17: with producers that submit positive quantities only, every order
\* resident in a channel and every order a pass re-publishes has a positive
\* quantity, and no quantity is negative during matching (an order filled to 0
\* stays in the sorted array and is passed over by the re-enqueue loops).
C17_PositiveQuantity ==
    /\ \A c \in Chans : \A o \in Range(Resident(c)) : o.quantity > 0
    /\ \A c \in Chans : \A o \in Range(accepted[c]) : o.quantity > 0
    /\ pc[Matcher] \in EnqueuePcs => order[Matcher].quantity > 0
    /\ \A o \in Range(m.sortedBuy) \cup Range(m.sortedSell) : o.quantity >= 0

\* C17 witness: a pass with producers at work has filled a buy to 0 and has
\* re-published the rest of a partially filled sell, and is over.
C17_Witness ==
    /\ PassDone
    /\ \E n \in DOMAIN m.sortedBuy : m.sortedBuy[n].quantity = 0
    /\ \E n \in DOMAIN m.sortedSell :
          /\ m.sortedSell[n].quantity > 0
          /\ m.sortedSell[n].quantity < m.sellOrders[1].quantity
          /\ m.sortedSell[n] \in Range(Resident(<<0, "S">>))
    /\ \E p \in Producers : pc[p] \in EnqueuePcs


\* The counters and slots of channel c.
ChanState(c) == <<orders[c], head[c], tail[c], tailReservation[c]>>

\* Thread t is at work for channel c: a producer inside the enqueue of an
\* order of c's ticker and side, the matcher inside a pass for c's ticker.
WorksOn(t, c) ==
    IF t = Matcher
       THEN pc[t] \notin {"m_loop", "m_for", "m_done"} /\ c[1] = m.ticker
       ELSE pc[t] \in EnqueuePcs /\ c = <<order[t].ticker, order[t].type>>

\* C18: a step changes the counters or slots of a channel only if it is a
\* step of a producer submitting an order of that channel's ticker and side, or
\* a step of a matching pass for that channel's ticker: addOrder for (t, side)
\* touches the channel of (t, side) only, and a pass for ticker t leaves the
\* channels of the other tickers unchanged.
C18_Step ==
    \A c \in Chans :
        ChanState(c)' # ChanState(c) =>
            \E t \in Threads :
                /\ pc'[t] # pc[t]
                /\ \A u \in Threads \ {t} : pc'[u] = pc[u]
                /\ WorksOn(t, c)

C18_ChannelFrame == [][C18_Step]_vars

\* C18 witness: the pass for ticker 1 is publishing an order it puts back
\* while the buy channel of ticker 0 holds an order and a producer holds a
\* reserved slot of a channel of ticker 0.
C18_Witness ==
    /\ pc[Matcher] = "e_store"
    /\ m.ticker = 1
    /\ tail[<<0, "B">>] > head[<<0, "B">>]
    /\ \E p \in Producers : pc[p] \in ReservedPcs /\ q[p][1] = 0


\* C19: in a pass the number of orders drained from a channel never exceeds
\* the capacity, whatever the producers enqueue meanwhile, so the arrays
\* buyOrders and sellOrders are never indexed at or beyond QUEUE_CAPACITY.
C19_DrainWithinCapacity ==
    /\ Len(m.buyOrders) <= QUEUE_CAPACITY
    /\ Len(m.sellOrders) <= QUEUE_CAPACITY
    /\ pc[Matcher] # "m_ub"

====
